---------------------------- MODULE Spec2Model ----------------------------
(***************************************************************************)
(* A model of funapis-response: the error-code format check, the process-  *)
(* wide ErrorCode registry, the paging and response builders, the payload  *)
(* serialisation and the exception-to-payload bridge.                      *)
(*                                                                         *)
(* Conventions.                                                            *)
(*  - An error code is a sequence of characters (one-character strings),   *)
(*    so that the regular expression can be run position by position.      *)
(*    "\n" is the line feed; "U+0663" stands for the single character      *)
(*    ARABIC-INDIC DIGIT THREE (Unicode category Nd, not ASCII).           *)
(*  - An Optional[T] field is None (the empty sequence) or Some(v) (<<v>>).*)
(*  - A value of type Any (the payload's data) is the text of its Python   *)
(*    literal: "None", "0", "False", "[]", "''", "{'id': 1}".              *)
(*  - Message texts are given in English; the source has them in Chinese.  *)
(***************************************************************************)
EXTENDS Integers, Sequences, FiniteSets, TLC

VARIABLES
    input,      \* validator: the string handed to the validators
    vres,       \* validator: result of validate_error_code, None before the call
    fres,       \* validator: result of ErrorCode._validate_code_format
    registry,   \* ErrorCode._registry: code -> ErrorCode instance
    log,        \* every ErrorCode constructed successfully, oldest first
    regCall,    \* the last ErrorCode(...) or get_by_code(...) call and its outcome
    threads,    \* the threads working on the registry: operation, position, outcome
    held,       \* the collection a caller got from get_all_codes / get_registry
    pb,         \* a PagingPayloadBuilder's fields
    pbChain,    \* the caller of the paging builder: arguments, position, outcome
    heap,       \* the list objects holding orders, by address
    built,      \* the PagingPayloads built from the builder, and what each held when built
    rb,         \* a ResponsePayloadBuilder's fields
    payload,    \* the ResponsePayload last returned, None if none
    call,       \* the last builder / payload / exception call and its outcome
    exc         \* the FunAPIException last constructed, None if none

validatorVars == <<input, vres, fres>>
registryVars == <<registry, log, regCall, threads, held>>
pagingVars == <<pb, pbChain, heap, built>>
responseVars == <<rb, payload, call, exc>>
vars == <<input, vres, fres, registry, log, regCall, threads, held, pb, pbChain, heap, built, rb, payload, call, exc>>

None == <<>>
Some(v) == <<v>>
IsNone(o) == o = <<>>
Get(o) == o[1]

(***************************************************************************)
(* Characters and the pattern ^FUN\d{9}$                                   *)
(***************************************************************************)
AsciiDigits == {"0", "1", "2", "3", "4", "5", "6", "7", "8", "9"}

\* Python's \d on a str pattern matches every Unicode decimal digit (category Nd).
UnicodeDecimalDigits == AsciiDigits \cup {"U+0663"}

\* the 9 of \d{9}
CodeDigits == 9

\* $ without re.MULTILINE: the end of the string, or just before a line feed
\* that is the last character of the string.
AtDollar(s, pos) ==
    \/ pos = Len(s) + 1
    \/ pos = Len(s) /\ s[pos] = "\n"

\* re.match(r'^FUN\d{9}$', s): anchored at the start, F, U, N, nine \d, then $.
ReMatchFunPattern(s) ==
    /\ Len(s) >= 3 + CodeDigits
    /\ s[1] = "F" /\ s[2] = "U" /\ s[3] = "N"
    /\ \A i \in 4..(3 + CodeDigits) : s[i] \in UnicodeDecimalDigits
    /\ AtDollar(s, 3 + CodeDigits + 1)

\* PayloadValidator.validate_error_code
validate_error_code(error_code) == ReMatchFunPattern(error_code)

\* ErrorCode._validate_code_format
_validate_code_format(code) == ReMatchFunPattern(code)

(***************************************************************************)
(* The strings the validators are run on: a prefix, a run of digits with   *)
(* at most one character of the run replaced, and a tail.                  *)
(***************************************************************************)
MaxDigitRun == 10

Prefixes == { <<"F", "U", "N">>, <<"A", "B", "C">>, <<"F", "U">>, <<"f", "u", "n">>,
              <<>>, <<"X", "F", "U", "N">> }

Tails == { <<>>, <<"\n">>, <<"\n", "\n">>, <<"x">>, <<"\n", "x">> }

OddChars == {"U+0663", "a", "\n", " "}

DigitCycle == <<"1", "2", "3", "4", "5", "6", "7", "8", "9", "0">>

DigitRun(n) == [i \in 1..n |-> DigitCycle[((i - 1) % 10) + 1]]

DigitRuns ==
    { DigitRun(n) : n \in 0..MaxDigitRun }
    \cup UNION { { [DigitRun(n) EXCEPT ![k] = c] : k \in 1..n, c \in OddChars } :
                  n \in 1..MaxDigitRun }

CodeInputs == { p \o d \o t : p \in Prefixes, d \in DigitRuns, t \in Tails }


(***************************************************************************)
(* Message templates and str.format                                        *)
(*                                                                         *)
(* A template is a sequence of segments: literal text, a named replacement *)
(* field {name}, or an automatically numbered field {}.                    *)
(***************************************************************************)
Lit(t) == [kind |-> "lit", text |-> t]
Field(n) == [kind |-> "field", text |-> n]
AutoField == [kind |-> "auto", text |-> ""]

RECURSIVE TemplateText(_)
\* the template as written in the source
TemplateText(t) ==
    IF t = <<>> THEN ""
    ELSE LET h == Head(t)
             s == CASE h.kind = "lit" -> h.text
                    [] h.kind = "field" -> "{" \o h.text \o "}"
                    [] OTHER -> "{}"
         IN s \o TemplateText(Tail(t))

RECURSIVE FormatFrom(_, _)
\* str.format(**kwargs), left to right: the text, or the exception a field raises.
\* get_message passes keyword arguments only, so {} has no positional argument.
FormatFrom(t, kwargs) ==
    IF t = <<>> THEN [raised |-> "none", key |-> "", text |-> ""]
    ELSE LET h == Head(t)
         IN CASE h.kind = "field" /\ h.text \notin DOMAIN kwargs ->
                    [raised |-> "KeyError", key |-> h.text, text |-> ""]
              [] h.kind = "auto" ->
                    [raised |-> "IndexError", key |-> "", text |-> ""]
              [] OTHER ->
                    LET rest == FormatFrom(Tail(t), kwargs)
                        here == IF h.kind = "lit" THEN h.text ELSE kwargs[h.text]
                    IN IF rest.raised = "none"
                       THEN [rest EXCEPT !.text = here \o rest.text]
                       ELSE rest

\* ErrorCode.get_message
get_message(ec, kwargs) ==
    LET r == FormatFrom(ec.message_template, kwargs)
    IN CASE r.raised = "none" -> r.text
         [] r.raised = "KeyError" ->
                TemplateText(ec.message_template)
                    \o " (missing format parameter: '" \o r.key \o "')"
         [] OTHER -> TemplateText(ec.message_template)

\* the call ec.get_message(**kwargs): the keywords are bound to the parameters of
\* `def get_message(self, **kwargs)` before the body runs, and a keyword named like the
\* first parameter is a TypeError ("got multiple values for argument 'self'")
CallGetMessage(ec, kwargs) ==
    IF "self" \in DOMAIN kwargs
    THEN [raised |-> "TypeError", value |-> None]
    ELSE [raised |-> "none", value |-> Some(get_message(ec, kwargs))]

(***************************************************************************)
(* ErrorCode and its registry                                              *)
(***************************************************************************)
FUN == <<"F", "U", "N">>

\* An ErrorCode instance; id is the object's identity (its construction number).
ErrorCodeInstance(id, code, severity, template) ==
    [id |-> id, code |-> code, severity |-> severity, message_template |-> template]

\* CommonErrorCodes, constructed in this order when the package is imported
SUCCESS ==
    ErrorCodeInstance(1, FUN \o <<"0", "0", "6", "6", "0", "0", "0", "0", "1">>, "INFO",
                      <<Lit("Operation succeeded")>>)
ENTITY_NOT_FOUND_ERROR ==
    ErrorCodeInstance(2, FUN \o <<"9", "9", "9", "8", "0", "0", "0", "0", "1">>, "WARNING",
                      <<Lit("Row not found: "), Field("entity_id")>>)
VALIDATION_ERROR ==
    ErrorCodeInstance(3, FUN \o <<"9", "9", "9", "9", "9", "9", "9", "9", "3">>, "WARNING",
                      <<Lit("Validation failed: "), Field("reason")>>)
API_ERROR ==
    ErrorCodeInstance(4, FUN \o <<"9", "9", "9", "9", "9", "9", "9", "9", "4">>, "ERROR",
                      <<Lit("API call error: "), Field("message")>>)
NETWORK_ERROR ==
    ErrorCodeInstance(5, FUN \o <<"9", "9", "9", "9", "9", "9", "9", "9", "5">>, "ERROR",
                      <<Lit("Network error: "), Field("message")>>)
ILLEGAL_OPERATION ==
    ErrorCodeInstance(6, FUN \o <<"9", "9", "9", "9", "0", "0", "0", "0", "1">>, "ERROR",
                      <<Lit("Illegal operation: "), Field("reason")>>)
UNKNOWN_ERROR ==
    ErrorCodeInstance(7, FUN \o <<"9", "9", "9", "9", "9", "9", "9", "9", "9">>, "FATAL",
                      <<Lit("Unknown error: "), Field("message")>>)

CommonErrorCodes ==
    <<SUCCESS, ENTITY_NOT_FOUND_ERROR, VALIDATION_ERROR, API_ERROR, NETWORK_ERROR,
      ILLEGAL_OPERATION, UNKNOWN_ERROR>>

\* the same with setdefault: an entry already present is kept
RegistryPutFirstWins(reg, inst) ==
    IF inst.code \in DOMAIN reg THEN reg
    ELSE [c \in DOMAIN reg \cup {inst.code} |-> IF c = inst.code THEN inst ELSE reg[c]]

\* ErrorCode._registry[self.code] = self
RegistryPut(reg, inst) ==
    [c \in DOMAIN reg \cup {inst.code} |-> IF c = inst.code THEN inst ELSE reg[c]]

RECURSIVE RegisterAll(_, _)
RegisterAll(reg, insts) ==
    IF insts = <<>> THEN reg
    ELSE RegisterAll(RegistryPut(reg, Head(insts)), Tail(insts))

EmptyRegistry == [c \in {} |-> SUCCESS]

\* the registry once error_codes/common.py has been imported
CommonRegistry == RegisterAll(EmptyRegistry, CommonErrorCodes)

\* ErrorCode.__post_init__: validate the code, then register the instance.
ErrorCode__post_init__(reg, inst) ==
    IF ~_validate_code_format(inst.code)
    THEN [raised |-> "ValueError", registry |-> reg]
    ELSE [raised |-> "none", registry |-> RegistryPut(reg, inst)]

\* ErrorCode.get_by_code: cls._registry.get(code)
ErrorCode_get_by_code(reg, code) ==
    IF code \in DOMAIN reg THEN Some(reg[code]) ELSE None

\* ErrorCodeRegistry.get_by_code delegates to ErrorCode.get_by_code
ErrorCodeRegistry_get_by_code(reg, code) == ErrorCode_get_by_code(reg, code)

(***************************************************************************)
(* PayloadValidator.validate_paging_params and PagingPayloadBuilder        *)
(***************************************************************************)
RECURSIVE KeysInOrder(_, _)
\* the keys of the dict in insertion order: a key keeps the position of its first
\* insertion when its entry is replaced; l is every instance registered, oldest first
KeysInOrder(l, earlier) ==
    IF l = <<>> THEN <<>>
    ELSE IF Head(l).code \in earlier THEN KeysInOrder(Tail(l), earlier)
    ELSE <<Head(l).code>> \o KeysInOrder(Tail(l), earlier \cup {Head(l).code})

\* ErrorCode._registry.values(), in the dict's order
ValuesInOrder(reg, l) ==
    LET ks == SelectSeq(KeysInOrder(l, {}), LAMBDA c : c \in DOMAIN reg)
    IN [i \in 1..Len(ks) |-> reg[ks[i]]]

\* A collection handed to a caller is an object of its own (alias FALSE, with its own
\* items) or the registry dict itself (alias TRUE: it has the registry's items).

\* ErrorCodeRegistry.get_all_codes: list(...) makes a new list
get_all_codes(reg, l) == [kind |-> "list", alias |-> FALSE, items |-> ValuesInOrder(reg, l)]

\* the same without the copy: the registry dict itself is handed out
get_registry_no_copy(reg) == [kind |-> "dict", alias |-> TRUE, items |-> reg]

\* ErrorCodeRegistry.get_registry: .copy() makes a new dict
get_registry(reg) == [kind |-> "dict", alias |-> FALSE, items |-> reg]

\* the item assignment on a copy of the dict as the thread saw it
StoreSubscrIntoCopy(reg, seen, inst) == RegistryPut(seen, inst)

\* `ErrorCode._registry[self.code] = self` as one thread runs it: seen is what the dict
\* held when the thread loaded the attribute _registry; the assignment goes to the
\* dict object itself, whatever it holds by now
StoreSubscr(reg, seen, inst) == RegistryPut(reg, inst)

RequiredKeys == {"page", "pageSize", "totalElements", "totalPages"}

\* the same with the last comparison page > totalPages
validate_paging_params_off_by_one(params) ==
    IF ~(RequiredKeys \subseteq DOMAIN params) THEN FALSE
    ELSE IF params["page"] < 0 THEN FALSE
    ELSE IF params["pageSize"] <= 0 THEN FALSE
    ELSE IF params["totalElements"] < 0 THEN FALSE
    ELSE IF params["totalPages"] < 0 THEN FALSE
    ELSE IF params["totalPages"] > 0 /\ params["page"] > params["totalPages"] THEN FALSE
    ELSE TRUE

\* PayloadValidator.validate_paging_params, on a dict of integers
validate_paging_params(params) ==
    IF ~(RequiredKeys \subseteq DOMAIN params) THEN FALSE
    ELSE IF params["page"] < 0 THEN FALSE
    ELSE IF params["pageSize"] <= 0 THEN FALSE
    ELSE IF params["totalElements"] < 0 THEN FALSE
    ELSE IF params["totalPages"] < 0 THEN FALSE
    ELSE IF params["totalPages"] > 0 /\ params["page"] >= params["totalPages"] THEN FALSE
    ELSE TRUE

\* PagingPayloadBuilder.__init__
NewPagingPayloadBuilder ==
    [_page |-> None, _page_size |-> None, _total_elements |-> None, _total_pages |-> None,
     _orders |-> <<>>]

\* A call on a builder returns the builder, or raises and leaves it as it was.
Returned(b) == [raised |-> "none", b |-> b]
Raised(e, b) == [raised |-> e, b |-> b]

\* the same with the page checked against the total_pages the builder holds
with_page_cross_checked(b, page) ==
    IF page < 0 THEN Raised("ValueError", b)
    ELSE IF ~IsNone(b._total_pages) /\ Get(b._total_pages) > 0 /\ page >= Get(b._total_pages)
    THEN Raised("ValueError", b)
    ELSE Returned([b EXCEPT !._page = Some(page)])

\* PagingPayloadBuilder.with_page
with_page(b, page) ==
    IF page < 0 THEN Raised("ValueError", b)
    ELSE Returned([b EXCEPT !._page = Some(page)])

\* the same with the assignment before the check
with_page_size_stored_first(b, page_size) ==
    IF page_size <= 0 THEN Raised("ValueError", [b EXCEPT !._page_size = Some(page_size)])
    ELSE Returned([b EXCEPT !._page_size = Some(page_size)])

\* PagingPayloadBuilder.with_page_size
with_page_size(b, page_size) ==
    IF page_size <= 0 THEN Raised("ValueError", b)
    ELSE Returned([b EXCEPT !._page_size = Some(page_size)])

\* PagingPayloadBuilder.with_total_elements
with_total_elements(b, total_elements) ==
    IF total_elements < 0 THEN Raised("ValueError", b)
    ELSE Returned([b EXCEPT !._total_elements = Some(total_elements)])

\* PagingPayloadBuilder.with_total_pages
with_total_pages(b, total_pages) ==
    IF total_pages < 0 THEN Raised("ValueError", b)
    ELSE Returned([b EXCEPT !._total_pages = Some(total_pages)])

\* the dict build() hands to the validator
PagingParams(b) ==
    [k \in RequiredKeys |->
        CASE k = "page" -> Get(b._page)
          [] k = "pageSize" -> Get(b._page_size)
          [] k = "totalElements" -> Get(b._total_elements)
          [] k = "totalPages" -> Get(b._total_pages)]

PagingPayload(page, page_size, total_elements, total_pages, orders) ==
    [page |-> page, page_size |-> page_size, total_elements |-> total_elements,
     total_pages |-> total_pages, orders |-> orders]

\* the f-string of the ValueError build() raises when the validator rejects the fields:
\* the text, cut where a value is put in
InvalidPagingMessage(b) ==
    << "Invalid paging parameters: ",
       "page=", ToString(Get(b._page)), ", ",
       "pageSize=", ToString(Get(b._page_size)), ", ",
       "totalElements=", ToString(Get(b._total_elements)), ", ",
       "totalPages=", ToString(Get(b._total_pages)) >>

\* PagingPayloadBuilder.build: Some(payload), or the ValueError it raises
PagingPayloadBuilder_build(b) ==
    IF \E x \in {b._page, b._page_size, b._total_elements, b._total_pages} : IsNone(x)
    THEN [raised |-> "ValueError", message |-> <<"All paging fields must be set">>,
          value |-> None]
    ELSE IF ~validate_paging_params(PagingParams(b))
    THEN [raised |-> "ValueError", message |-> InvalidPagingMessage(b),
          value |-> None]
    ELSE [raised |-> "none", message |-> <<>>,
          value |-> Some(PagingPayload(Get(b._page), Get(b._page_size),
                                       Get(b._total_elements), Get(b._total_pages),
                                       b._orders))]

\* PagingPayloadBuilder.with_orders: the builder keeps the list it is handed
with_orders(b, orders) == Returned([b EXCEPT !._orders = orders])

\* PagingPayloadBuilder.add_order: `self._orders.append(order)` changes the list object
\* the builder refers to; h is the heap of list objects, b._orders an address in it
add_order(h, b, order) == [h EXCEPT ![b._orders] = Append(@, order)]

(***************************************************************************)
(* Python truthiness                                                       *)
(***************************************************************************)
\* the literals of type Any that are false in a condition
FalsyLiterals == {"None", "0", "False", "[]", "''", "{}"}

\* `if x:` on a value of type Any
Truthy(x) == x \notin FalsyLiterals

\* `if s:` on an Optional[str]: None and the empty string are false
TruthyStr(o) == ~IsNone(o) /\ Get(o) # ""

(***************************************************************************)
(* OrderingPayload, PagingPayload and ResponsePayload                      *)
(***************************************************************************)
\* OrderingPayload.to_dict
OrderingPayload_to_dict(o) == [property |-> o.property, direction |-> o.direction]

\* PagingPayload.to_dict
PagingPayload_to_dict(p) ==
    [page |-> p.page, pageSize |-> p.page_size, totalElements |-> p.total_elements,
     totalPages |-> p.total_pages,
     orders |-> [i \in 1..Len(p.orders) |-> OrderingPayload_to_dict(p.orders[i])]]

ResponsePayload(message_id, message_datetime, error_code, error_desc, data, paging, trace) ==
    [message_id |-> message_id, message_datetime |-> message_datetime,
     error_code |-> error_code, error_desc |-> error_desc, data |-> data,
     paging |-> paging, _stack_trace |-> trace]

\* str(UUID): the canonical text of the identifier
UUID_str(u) == u.hex

\* datetime.isoformat(): the offset is printed only for an aware datetime
isoformat(dt) == IF dt.tzinfo = "" THEN dt.local ELSE dt.local \o dt.tzinfo

\* the same with `user_level in (ADMIN, DEVELOPER)`
ShowsStackTraceFromAdmin(p, user_level) ==
    TruthyStr(p._stack_trace) /\ user_level \in {"ADMIN", "DEVELOPER"}

\* ResponsePayload.to_dict: `if self._stack_trace and user_level == UserLevel.DEVELOPER`
ShowsStackTrace(p, user_level) ==
    TruthyStr(p._stack_trace) /\ user_level = "DEVELOPER"

\* the same with `if self.data`
EmitsDataIfTruthy(p) == Truthy(p.data)

\* ResponsePayload.to_dict: `if self.data is not None`
EmitsData(p) == p.data # "None"

\* the same with the data withheld from a GENERAL_USER
to_dict_data_for_staff(p, user_level) ==
    LET keys == {"messageId", "messageDatetime", "errorCode", "errorDesc"}
                \cup (IF EmitsData(p) /\ user_level # "GENERAL_USER" THEN {"data"} ELSE {})
                \cup (IF ~IsNone(p.paging) THEN {"paging"} ELSE {})
                \cup (IF ShowsStackTrace(p, user_level) THEN {"stackTrace"} ELSE {})
    IN [k \in keys |->
          CASE k = "messageId" -> UUID_str(p.message_id)
            [] k = "messageDatetime" -> isoformat(p.message_datetime)
            [] k = "errorCode" -> p.error_code
            [] k = "errorDesc" -> p.error_desc
            [] k = "data" -> p.data
            [] k = "paging" -> PagingPayload_to_dict(Get(p.paging))
            [] k = "stackTrace" -> Get(p._stack_trace)]

\* ResponsePayload.to_dict: the dict, as a function from its keys
to_dict(p, user_level) ==
    LET keys == {"messageId", "messageDatetime", "errorCode", "errorDesc"}
                \cup (IF EmitsData(p) THEN {"data"} ELSE {})
                \cup (IF ~IsNone(p.paging) THEN {"paging"} ELSE {})
                \cup (IF ShowsStackTrace(p, user_level) THEN {"stackTrace"} ELSE {})
    IN [k \in keys |->
          CASE k = "messageId" -> UUID_str(p.message_id)
            [] k = "messageDatetime" -> isoformat(p.message_datetime)
            [] k = "errorCode" -> p.error_code
            [] k = "errorDesc" -> p.error_desc
            [] k = "data" -> p.data
            [] k = "paging" -> PagingPayload_to_dict(Get(p.paging))
            [] k = "stackTrace" -> Get(p._stack_trace)]

UserLevel == {"GENERAL_USER", "OPERATOR", "ADMIN", "DEVELOPER"}

(***************************************************************************)
(* ResponsePayloadBuilder                                                  *)
(***************************************************************************)
\* ResponsePayloadBuilder.__init__: uuid4() and datetime.now(ZoneInfo("Asia/Taipei"))
\* are what the environment hands out
NewResponsePayloadBuilder(uuid, now) ==
    [_message_id |-> uuid, _message_datetime |-> now, _error_code |-> None,
     _error_desc |-> None, _data |-> "None", _paging |-> None, _stack_trace |-> None]

\* PayloadValidator.validate_datetime_format
validate_datetime_format(dt) == dt.tzinfo # ""

\* ResponsePayloadBuilder.with_message_id
with_message_id(b, message_id) == Returned([b EXCEPT !._message_id = message_id])

\* the same without the check of the timestamp
with_message_datetime_unchecked(b, message_datetime) ==
    Returned([b EXCEPT !._message_datetime = message_datetime])

\* ResponsePayloadBuilder.with_message_datetime
with_message_datetime(b, message_datetime) ==
    IF ~validate_datetime_format(message_datetime) THEN Raised("ValueError", b)
    ELSE Returned([b EXCEPT !._message_datetime = message_datetime])

\* the same with the assignment before the check
with_error_code_stored_first(b, error_code) ==
    IF ~validate_error_code(error_code)
    THEN Raised("ValueError", [b EXCEPT !._error_code = Some(error_code)])
    ELSE Returned([b EXCEPT !._error_code = Some(error_code)])

\* ResponsePayloadBuilder.with_error_code
with_error_code(b, error_code) ==
    IF ~validate_error_code(error_code) THEN Raised("ValueError", b)
    ELSE Returned([b EXCEPT !._error_code = Some(error_code)])

\* ResponsePayloadBuilder.with_error_desc
with_error_desc(b, error_desc) == Returned([b EXCEPT !._error_desc = Some(error_desc)])

\* the same without the assignment
with_data_not_stored(b, data) == Returned(b)

\* ResponsePayloadBuilder.with_data
with_data(b, data) == Returned([b EXCEPT !._data = data])

\* ResponsePayloadBuilder.with_paging
with_paging(b, paging) == Returned([b EXCEPT !._paging = Some(paging)])

\* ResponsePayloadBuilder.with_stack_trace
with_stack_trace(b, stack_trace) == Returned([b EXCEPT !._stack_trace = Some(stack_trace)])

\* ResponsePayloadBuilder.build: `if not self._error_code or not self._error_desc`
MissingRequired(b) ==
    \/ IsNone(b._error_code) \/ Get(b._error_code) = <<>>
    \/ ~TruthyStr(b._error_desc)

\* ResponsePayloadBuilder.build: Some(payload), or the ValueError it raises
ResponsePayloadBuilder_build(b) ==
    IF MissingRequired(b)
    THEN [raised |-> "ValueError", value |-> None]
    ELSE [raised |-> "none",
          value |-> Some(ResponsePayload(b._message_id, b._message_datetime,
                                         Get(b._error_code), Get(b._error_desc),
                                         b._data, b._paging, b._stack_trace))]

(***************************************************************************)
(* The attributes class ResponsePayloadBuilder defines.  Looking up any    *)
(* other name on the class raises AttributeError.                          *)
(***************************************************************************)
ResponsePayloadBuilderAttributes ==
    {"__init__", "with_message_id", "with_message_datetime", "with_error_code",
     "with_error_desc", "with_data", "with_paging", "with_stack_trace", "build"}

\* ResponsePayloadBuilder.<name>: the attribute lookup on the class
ClassAttributeLookup(name) ==
    IF name \in ResponsePayloadBuilderAttributes THEN "none" ELSE "AttributeError"

NoKwargs == [k \in {} |-> ""]

(***************************************************************************)
(* FunAPIException and its subtypes                                        *)
(***************************************************************************)
\* FunAPIException.__init__; message_params is an Optional[Dict[str, Any]]
FunAPIException(type, error_code, message_params, data, stack_trace) ==
    LET params == IF IsNone(message_params) \/ DOMAIN Get(message_params) = {}
                  THEN NoKwargs ELSE Get(message_params)
    IN [type |-> type, error_code |-> error_code, message_params |-> params,
        data |-> data, stack_trace |-> stack_trace,
        message |-> get_message(error_code, params)]

\* `traceback.format_exc() if include_trace else None`; tb is what format_exc returns
TraceIf(include_trace, tb) == IF include_trace THEN Some(tb) ELSE None

Kw1(k, v) == [x \in {k} |-> v]
Kw2(k1, v1, k2, v2) == [x \in {k1, k2} |-> IF x = k1 THEN v1 ELSE v2]

\* str() of the one-element set {entity_name}
SetRepr(entity_name) == "{'" \o entity_name \o "'}"

ValidationError(reason, data, include_trace, tb) ==
    FunAPIException("ValidationError", VALIDATION_ERROR, Some(Kw1("reason", reason)),
                    data, TraceIf(include_trace, tb))

EntityNotFoundError(identifier, entity_name, data, include_trace, tb) ==
    FunAPIException("EntityNotFoundError", ENTITY_NOT_FOUND_ERROR,
                    Some(Kw2("entity_name", SetRepr(entity_name), "identifier", identifier)),
                    data, TraceIf(include_trace, tb))

APIError(message, data, include_trace, tb) ==
    FunAPIException("APIError", API_ERROR, Some(Kw1("message", message)),
                    data, TraceIf(include_trace, tb))

NetworkError(message, data, include_trace, tb) ==
    FunAPIException("NetworkError", NETWORK_ERROR, Some(Kw1("message", message)),
                    data, TraceIf(include_trace, tb))

IllegalOperationError(reason, data, include_trace, tb) ==
    FunAPIException("IllegalOperationError", ILLEGAL_OPERATION, Some(Kw1("reason", reason)),
                    data, TraceIf(include_trace, tb))

\* `message = message or <fallback>`; message is an Optional[str]
UnknownErrorFallback == "An unexpected error occurred"

\* the fallback only when no message is passed at all
UnknownErrorFallbackOnlyForNone(message, data, include_trace, tb) ==
    LET m == IF IsNone(message) THEN UnknownErrorFallback ELSE Get(message)
    IN FunAPIException("UnknownError", UNKNOWN_ERROR, Some(Kw1("message", m)),
                       data, TraceIf(include_trace, tb))

UnknownError(message, data, include_trace, tb) ==
    LET m == IF TruthyStr(message) THEN Get(message) ELSE UnknownErrorFallback
    IN FunAPIException("UnknownError", UNKNOWN_ERROR, Some(Kw1("message", m)),
                       data, TraceIf(include_trace, tb))

\* every subtype capturing a trace unless told otherwise
DefaultIncludeTraceAlways(type) == TRUE

\* the include_trace default of each subtype's __init__
DefaultIncludeTrace(type) == type \in {"APIError", "NetworkError", "UnknownError"}

\* FunAPIException.to_response_payload: Some(payload), or the exception it raises
to_response_payload(e, uuid, now) ==
    LET b0 == NewResponsePayloadBuilder(uuid, now)
        r1 == with_error_code(b0, e.error_code.code)
        b2 == with_error_desc(r1.b, e.message).b
        b3 == IF Truthy(e.data) THEN with_data(b2, e.data).b ELSE b2
        b4 == IF TruthyStr(e.stack_trace) THEN with_stack_trace(b3, Get(e.stack_trace)).b
              ELSE b3
    IN IF r1.raised # "none" THEN [raised |-> r1.raised, value |-> None]
       ELSE ResponsePayloadBuilder_build(b4)

(***************************************************************************)
(* Inputs                                                                  *)
(***************************************************************************)
Custom1 == FUN \o <<"1", "2", "3", "4", "5", "6", "7", "8", "9">>
Custom2 == FUN \o <<"9", "8", "7", "6", "5", "4", "3", "2", "1">>
Invalid == <<"I", "N", "V", "A", "L", "I", "D">>
NeverUsed == FUN \o <<"0", "0", "0", "0", "0", "0", "0", "0", "0">>

\* the codes handed to ErrorCode(...): new ones, one already registered, malformed ones
NewCodes ==
    { Custom1, Custom2, SUCCESS.code, Invalid, Custom1 \o <<"\n">> }

LookupCodes == NewCodes \cup {NeverUsed, UNKNOWN_ERROR.code}

Severities == {"INFO", "WARNING", "ERROR", "FATAL"}

Templates ==
    { <<>>, <<Lit("Custom error: "), Field("detail")>>, <<Field("detail")>>, <<AutoField>> }

KwargsPool == { NoKwargs, Kw1("detail", "disk full"), Kw1("detail", ""), Kw1("other", "x") }

DataValues == {"None", "0", "False", "[]", "''", "{'id': 1}"}

TraceTexts == {"NoneType: None\n", "Traceback (most recent call last): ..."}

Texts == {"", "username required"}

UUIDs == { [hex |-> "4417de2c-c4a8-4d6f-86fc-6cd23a72c557"],
           [hex |-> "9b2f0c1e-5d3a-4e7b-8c6d-0a1b2c3d4e5f"] }

Nows == { [local |-> "2026-11-03T22:30:51", tzinfo |-> "+08:00"] }

\* how many ErrorCode instances are constructed after the predefined ones
MaxConstructions == 2

(***************************************************************************)
(* The state before any call                                               *)
(***************************************************************************)
NoRegCall == [op |-> "none", code |-> <<>>, raised |-> "none", result |-> None,
              before |-> CommonRegistry]

\* how many threads work on the registry at once
MaxThreads == 3

Threads == 1..MaxThreads

NoThread == [op |-> "none", pc |-> "idle", code |-> <<>>, seen |-> EmptyRegistry,
             raised |-> "none", result |-> None]

NoThreads == [t \in Threads |-> NoThread]

NoChain == [page |-> 0, size |-> 0, total |-> 0, pages |-> 0, skip |-> {},
            pc |-> "idle", raised |-> "none", message |-> <<>>, result |-> None]

NoCall == [op |-> "none", arg |-> "", raised |-> "none", result |-> None]

ValidatorIdle == input = <<>> /\ vres = None /\ fres = None
RegistryStart ==
    /\ registry = CommonRegistry /\ log = CommonErrorCodes /\ regCall = NoRegCall
    /\ threads = NoThreads /\ held = None
\* the addresses of the list a PagingPayloadBuilder makes for itself in __init__ and of
\* a list the caller makes
OwnList == "PagingPayloadBuilder._orders"
CallerList == "orders"

NoLists == [a \in {OwnList, CallerList} |-> <<>>]

PagingIdle ==
    /\ pb = NewPagingPayloadBuilder /\ pbChain = NoChain
    /\ heap = NoLists /\ built = <<>>
ResponseIdle == rb = None /\ payload = None /\ call = NoCall /\ exc = None

(***************************************************************************)
(* The validators, run on one input string                                 *)
(***************************************************************************)
InitValidator ==
    /\ input \in CodeInputs /\ vres = None /\ fres = None
    /\ RegistryStart /\ PagingIdle /\ ResponseIdle

ValidateErrorCode ==
    /\ IsNone(vres)
    /\ vres' = Some(validate_error_code(input))
    /\ UNCHANGED <<input, fres, registryVars, pagingVars, responseVars>>

ValidateCodeFormat ==
    /\ IsNone(fres)
    /\ fres' = Some(_validate_code_format(input))
    /\ UNCHANGED <<input, vres, registryVars, pagingVars, responseVars>>

NextValidator == ValidateErrorCode \/ ValidateCodeFormat

SpecValidator == InitValidator /\ [][NextValidator]_vars

(***************************************************************************)
(* The registry: ErrorCode constructions and lookups                       *)
(***************************************************************************)
InitRegistry == ValidatorIdle /\ RegistryStart /\ PagingIdle /\ ResponseIdle

\* ErrorCode(code, severity, message_template)
NewErrorCode(code, severity, template) ==
    /\ Len(log) < Len(CommonErrorCodes) + MaxConstructions
    /\ LET inst == ErrorCodeInstance(Len(log) + 1, code, severity, template)
           r == ErrorCode__post_init__(registry, inst)
       IN /\ registry' = r.registry
          /\ log' = IF r.raised = "none" THEN Append(log, inst) ELSE log
          /\ regCall' = [op |-> "ErrorCode", code |-> code, raised |-> r.raised,
                         result |-> IF r.raised = "none" THEN Some(inst) ELSE None,
                         before |-> registry]
    /\ UNCHANGED <<threads, held, validatorVars, pagingVars, responseVars>>

\* ErrorCode.get_by_code(code)
GetByCode(code) ==
    /\ regCall' = [op |-> "ErrorCode.get_by_code", code |-> code, raised |-> "none",
                   result |-> ErrorCode_get_by_code(registry, code), before |-> registry]
    /\ UNCHANGED <<registry, log, threads, held, validatorVars, pagingVars, responseVars>>

\* ErrorCodeRegistry.get_by_code(code)
RegistryGetByCode(code) ==
    /\ regCall' = [op |-> "ErrorCodeRegistry.get_by_code", code |-> code, raised |-> "none",
                   result |-> ErrorCodeRegistry_get_by_code(registry, code),
                   before |-> registry]
    /\ UNCHANGED <<registry, log, threads, held, validatorVars, pagingVars, responseVars>>

NextRegistry ==
    \/ \E c \in NewCodes, s \in {"ERROR", "WARNING"}, t \in {<<>>, <<Lit("Custom error: "), Field("detail")>>} :
          NewErrorCode(c, s, t)
    \/ \E c \in LookupCodes : GetByCode(c)
    \/ \E c \in LookupCodes : RegistryGetByCode(c)

SpecRegistry == InitRegistry /\ [][NextRegistry]_vars

(***************************************************************************)
(* Properties of the validators and of the registry                        *)
(***************************************************************************)
\* exactly the three characters F, U, N followed by exactly nine of 0..9
IsFunPlusNineDigits(s) ==
    /\ Len(s) = 3 + CodeDigits
    /\ SubSeq(s, 1, 3) = FUN
    /\ \A i \in 4..(3 + CodeDigits) : s[i] \in AsciiDigits

\* C3: for every string s, validate_error_code(s) and ErrorCode._validate_code_format(s)
\* are true if and only if s is exactly FUN followed by exactly 9 decimal digits.
C3_ValidatorsAcceptExactlyFunPlusNineDigits ==
    /\ ~IsNone(vres) => (Get(vres) <=> IsFunPlusNineDigits(input))
    /\ ~IsNone(fres) => (Get(fres) <=> IsFunPlusNineDigits(input))

\* the instance most recently constructed successfully with code c, if any
MostRecent(l, c) ==
    LET at == {i \in 1..Len(l) : l[i].code = c}
    IN IF at = {} THEN None
       ELSE Some(l[CHOOSE i \in at : \A j \in at : j <= i])

IsLookup(rc) == rc.op \in {"ErrorCode.get_by_code", "ErrorCodeRegistry.get_by_code"}

\* C5: get_by_code(c), on ErrorCode and on ErrorCodeRegistry, returns the instance most
\* recently constructed successfully with code c (a second ErrorCode with a code already
\* present replaces the earlier entry), and returns None without raising when no
\* instance with code c was ever constructed.
C5_GetByCodeReturnsMostRecent ==
    IsLookup(regCall) =>
        /\ regCall.raised = "none"
        /\ regCall.result = MostRecent(log, regCall.code)

\* a lookup that returned an instance which replaced an earlier one with the same code
C5_Witness_LookupAfterReplacement ==
    /\ IsLookup(regCall)
    /\ ~IsNone(regCall.result)
    /\ \E i \in 1..Len(log) :
          log[i].code = regCall.code /\ log[i].id < Get(regCall.result).id

\* C6: constructing an ErrorCode whose code is not FUN plus 9 digits fails with
\* ValueError and leaves the registry exactly as it was before.
C6_MalformedCodeIsRejected ==
    (regCall.op = "ErrorCode" /\ ~IsFunPlusNineDigits(regCall.code)) =>
        /\ regCall.raised = "ValueError"
        /\ registry = regCall.before

\* C25: in every state reached by successful and failed ErrorCode constructions, every
\* key k of the registry is FUN followed by nine digits and maps to an ErrorCode whose
\* code is k; a construction with code c changes no entry but the one for c, and no
\* entry is ever removed.
C25_RegistryKeysWellFormedAndStable ==
    /\ \A k \in DOMAIN registry : IsFunPlusNineDigits(k) /\ registry[k].code = k
    /\ regCall.op = "ErrorCode" =>
          /\ DOMAIN regCall.before \subseteq DOMAIN registry
          /\ DOMAIN registry \subseteq DOMAIN regCall.before \cup {regCall.code}
          /\ \A k \in DOMAIN regCall.before \ {regCall.code} :
                registry[k] = regCall.before[k]

(***************************************************************************)
(* The paging builder, driven by the chain                                 *)
(*   PagingPayloadBuilder().with_page(page).with_page_size(size)           *)
(*       .with_total_elements(total).with_total_pages(pages).build()       *)
(* in which a caller may leave out any of the four setters.  A setter that *)
(* raises ends the chain.                                                  *)
(***************************************************************************)
\* the integers handed to the setters are -1..MaxPagingValue
MaxPagingValue == 3

PagingValues == -1..MaxPagingValue

Setters == {"with_page", "with_page_size", "with_total_elements", "with_total_pages"}

InitPaging ==
    /\ ValidatorIdle /\ RegistryStart /\ ResponseIdle
    /\ pb = NewPagingPayloadBuilder
    /\ heap = NoLists /\ built = <<>>
    /\ \E page \in PagingValues, size \in PagingValues, total \in PagingValues,
          pages \in PagingValues, skip \in SUBSET Setters :
          pbChain = [NoChain EXCEPT !.page = page, !.size = size, !.total = total,
                                    !.pages = pages, !.skip = skip, !.pc = "with_page"]

\* one setter of the chain: left out, or called with its argument
ChainStep(name, r, next) ==
    /\ IF name \in pbChain.skip
       THEN pb' = pb /\ pbChain' = [pbChain EXCEPT !.pc = next]
       ELSE IF r.raised # "none"
       THEN pb' = r.b /\ pbChain' = [pbChain EXCEPT !.pc = "raised", !.raised = r.raised]
       ELSE pb' = r.b /\ pbChain' = [pbChain EXCEPT !.pc = next]
    /\ UNCHANGED <<heap, built, validatorVars, registryVars, responseVars>>

ChainWithPage ==
    /\ pbChain.pc = "with_page"
    /\ ChainStep("with_page", with_page(pb, pbChain.page), "with_page_size")

ChainWithPageSize ==
    /\ pbChain.pc = "with_page_size"
    /\ ChainStep("with_page_size", with_page_size(pb, pbChain.size), "with_total_elements")

ChainWithTotalElements ==
    /\ pbChain.pc = "with_total_elements"
    /\ ChainStep("with_total_elements", with_total_elements(pb, pbChain.total),
                 "with_total_pages")

ChainWithTotalPages ==
    /\ pbChain.pc = "with_total_pages"
    /\ ChainStep("with_total_pages", with_total_pages(pb, pbChain.pages), "build")

ChainBuild ==
    /\ pbChain.pc = "build"
    /\ LET r == PagingPayloadBuilder_build(pb)
       IN pbChain' = [pbChain EXCEPT !.pc = IF r.raised = "none" THEN "returned" ELSE "raised",
                                     !.raised = r.raised, !.message = r.message,
                                     !.result = r.value]
    /\ UNCHANGED <<pb, heap, built, validatorVars, registryVars, responseVars>>

NextPaging ==
    \/ ChainWithPage
    \/ ChainWithPageSize
    \/ ChainWithTotalElements
    \/ ChainWithTotalPages
    \/ ChainBuild

SpecPaging == InitPaging /\ [][NextPaging]_vars

\* the condition of the claim on the four integers
ValidPagingTuple(page, size, total, pages) ==
    page >= 0 /\ size > 0 /\ total >= 0 /\ pages >= 0 /\ (pages = 0 \/ page < pages)

ChainEnded == pbChain.pc \in {"returned", "raised"}

\* C4: the chain with all four setters returns a PagingPayload if and only if
\* page >= 0, size > 0, total >= 0, pages >= 0 and (pages = 0 or page < pages), the
\* payload holding these four integers; otherwise it ends in ValueError; and build()
\* fails with ValueError whenever one of the four fields was never set.
C4_PagingBuildSucceedsIffValid ==
    ChainEnded =>
        /\ pbChain.skip = {} =>
              /\ pbChain.pc = "returned" <=>
                    ValidPagingTuple(pbChain.page, pbChain.size, pbChain.total, pbChain.pages)
              /\ pbChain.pc = "returned" =>
                    /\ ~IsNone(pbChain.result)
                    /\ Get(pbChain.result) =
                          PagingPayload(pbChain.page, pbChain.size, pbChain.total,
                                        pbChain.pages, <<>>)
        /\ pbChain.skip # {} => pbChain.pc = "raised"
        /\ pbChain.pc = "raised" => pbChain.raised = "ValueError" /\ IsNone(pbChain.result)

\* the chain reached build() with every setter accepted and build() refused the tuple:
\* page = pages > 0
C4_Witness_BuildRejectsPageEqualPages ==
    /\ pbChain.pc = "raised" /\ pbChain.skip = {}
    /\ Len(pbChain.message) > 1 /\ pbChain.message[1] = "Invalid paging parameters: "
    /\ pbChain.page = pbChain.pages /\ pbChain.pages > 0

(***************************************************************************)
(* The response builder and the payload's serialisation.  payload is the   *)
(* ResponsePayload the caller holds: the one the last build() returned; the*)
(* caller lets go of it when it goes on configuring a builder.             *)
(***************************************************************************)
SamplePaging ==
    PagingPayload(0, 10, 25, 3, <<[property |-> "name", direction |-> "ASC"]>>)

BuilderCodes == {SUCCESS.code, Custom1, Invalid, Custom1 \o <<"\n">>}

BuilderData == {"None", "0", "[]", "{'id': 1}"}

BuilderTraces == {"", "Traceback (most recent call last): ..."}

\* the arguments of with_message_id and with_message_datetime: a naive timestamp and one
\* with an offset
BuilderUUIDs == { [hex |-> "123e4567-e89b-12d3-a456-426614174000"] }

BuilderDatetimes == { [local |-> "2024-01-01T12:00:00", tzinfo |-> ""],
                      [local |-> "2024-01-01T12:00:00", tzinfo |-> "+00:00"] }

\* the arguments of with_error: a registered ErrorCode and its parameters
WithErrorCodes == {VALIDATION_ERROR, SUCCESS}

WithErrorKwargs == {NoKwargs, Kw1("reason", "username required")}

InitResponse == ValidatorIdle /\ RegistryStart /\ PagingIdle /\ ResponseIdle

ResponseFrame == UNCHANGED <<exc, validatorVars, registryVars, pagingVars>>

\* ResponsePayloadBuilder()
NewBuilder(uuid, now) ==
    /\ rb' = Some(NewResponsePayloadBuilder(uuid, now))
    /\ call' = [NoCall EXCEPT !.op = "ResponsePayloadBuilder"]
    /\ payload' = None
    /\ ResponseFrame

\* a setter called on the builder: r is what it returns or raises
SetterCall(name, arg, r) ==
    /\ rb' = Some(r.b)
    /\ call' = [op |-> name, arg |-> arg, raised |-> r.raised, result |-> None]
    /\ payload' = None
    /\ ResponseFrame

WithMessageId(message_id) ==
    /\ ~IsNone(rb)
    /\ SetterCall("with_message_id", message_id, with_message_id(Get(rb), message_id))

WithMessageDatetime(message_datetime) ==
    /\ ~IsNone(rb)
    /\ SetterCall("with_message_datetime", message_datetime,
                  with_message_datetime(Get(rb), message_datetime))

WithErrorCode(error_code) ==
    /\ ~IsNone(rb)
    /\ SetterCall("with_error_code", error_code, with_error_code(Get(rb), error_code))

WithErrorDesc(error_desc) ==
    /\ ~IsNone(rb)
    /\ SetterCall("with_error_desc", error_desc, with_error_desc(Get(rb), error_desc))

WithData(data) ==
    /\ ~IsNone(rb)
    /\ SetterCall("with_data", data, with_data(Get(rb), data))

WithPaging(paging) ==
    /\ ~IsNone(rb)
    /\ SetterCall("with_paging", paging, with_paging(Get(rb), paging))

WithStackTrace(stack_trace) ==
    /\ ~IsNone(rb)
    /\ SetterCall("with_stack_trace", stack_trace, with_stack_trace(Get(rb), stack_trace))

\* builder.with_error(error_code, **kwargs), as the tests and the examples call it: the
\* class defines no such attribute, so the lookup on the instance raises and the builder
\* stays as it was
WithError(error_code, kwargs) ==
    /\ ~IsNone(rb)
    /\ call' = [op |-> "with_error", arg |-> [code |-> error_code, params |-> kwargs],
                raised |-> ClassAttributeLookup("with_error"), result |-> None]
    /\ payload' = None
    /\ UNCHANGED rb
    /\ ResponseFrame

\* ResponsePayloadBuilder.success(data), as the tests and the examples call it: the
\* class defines no such attribute, so the lookup raises and the caller gets no builder
Success(data) ==
    /\ call' = [op |-> "success", arg |-> data,
                raised |-> ClassAttributeLookup("success"), result |-> None]
    /\ rb' = None
    /\ payload' = None
    /\ ResponseFrame

\* builder.build()
Build ==
    /\ ~IsNone(rb)
    /\ LET r == ResponsePayloadBuilder_build(Get(rb))
       IN /\ payload' = IF r.raised = "none" THEN r.value ELSE payload
          /\ call' = [op |-> "build", arg |-> "", raised |-> r.raised, result |-> r.value]
    /\ UNCHANGED rb
    /\ ResponseFrame

\* payload.to_dict(user_level)
ToDict(user_level) ==
    /\ ~IsNone(payload)
    /\ call' = [op |-> "to_dict", arg |-> user_level, raised |-> "none",
                result |-> Some(to_dict(Get(payload), user_level))]
    /\ UNCHANGED <<rb, payload>>
    /\ ResponseFrame

NextResponse ==
    \/ \E u \in UUIDs, n \in Nows : NewBuilder(u, n)
    \/ \E u \in BuilderUUIDs : WithMessageId(u)
    \/ \E dt \in BuilderDatetimes : WithMessageDatetime(dt)
    \/ \E c \in BuilderCodes : WithErrorCode(c)
    \/ \E d \in Texts : WithErrorDesc(d)
    \/ \E x \in BuilderData : WithData(x)
    \/ WithPaging(SamplePaging)
    \/ \E t \in BuilderTraces : WithStackTrace(t)
    \/ \E x \in BuilderData : Success(x)
    \/ \E ec \in WithErrorCodes, kw \in WithErrorKwargs : WithError(ec, kw)
    \/ Build
    \/ \E l \in UserLevel : ToDict(l)

SpecResponse == InitResponse /\ [][NextResponse]_vars

(***************************************************************************)
(* Properties of the response builder and of to_dict                       *)
(***************************************************************************)
\* C1 as stated: to_dict(level) contains stackTrace if and only if a trace was recorded
\* on the payload (it is not None) and level is exactly DEVELOPER.
C1_Original_StackTraceIffRecorded ==
    call.op = "to_dict" =>
        LET d == Get(call.result)
            p == Get(payload)
        IN "stackTrace" \in DOMAIN d <=>
              (~IsNone(p._stack_trace) /\ call.arg = "DEVELOPER")

\* C1, amended: to_dict(level) contains the key stackTrace if and only if a non-empty
\* trace was recorded on the payload and level is exactly DEVELOPER; when present its
\* value equals the recorded trace; for GENERAL_USER, OPERATOR and ADMIN it is absent.
C1_StackTraceIffNonEmptyAndDeveloper ==
    call.op = "to_dict" =>
        LET d == Get(call.result)
            p == Get(payload)
        IN /\ "stackTrace" \in DOMAIN d <=>
                 /\ ~IsNone(p._stack_trace)
                 /\ Get(p._stack_trace) # ""
                 /\ call.arg = "DEVELOPER"
           /\ "stackTrace" \in DOMAIN d => d["stackTrace"] = Get(p._stack_trace)
           /\ call.arg \in {"GENERAL_USER", "OPERATOR", "ADMIN"} =>
                 "stackTrace" \notin DOMAIN d

\* a payload with a trace, serialised for an ADMIN: no stackTrace key
C1_Witness_TraceHiddenFromAdmin ==
    /\ call.op = "to_dict" /\ call.arg = "ADMIN"
    /\ ~IsNone(Get(payload)._stack_trace)
    /\ Get(Get(payload)._stack_trace) # ""
    /\ "stackTrace" \notin DOMAIN Get(call.result)

\* C2: a payload built through ResponsePayloadBuilder with error code C, description D
\* and data X serialises to errorCode = C, errorDesc = D and data = X, and has no data
\* key when the data was never set or is None.  The setters store their argument, and
\* the dict is that of the builder the payload was built from.
C2_BuildThenToDictKeepsCodeDescData ==
    /\ (call.op = "with_error_code" /\ call.raised = "none") =>
          Get(rb)._error_code = Some(call.arg)
    /\ call.op = "with_error_desc" => Get(rb)._error_desc = Some(call.arg)
    /\ call.op = "with_data" => Get(rb)._data = call.arg
    /\ call.op = "to_dict" =>
          LET d == Get(call.result)
              b == Get(rb)
          IN /\ d["errorCode"] = Get(b._error_code)
             /\ d["errorDesc"] = Get(b._error_desc)
             /\ b._data = "None" => "data" \notin DOMAIN d
             /\ b._data # "None" => "data" \in DOMAIN d /\ d["data"] = b._data

\* a payload built with the data 0, serialised: the data key is there
C2_Witness_ZeroDataSerialised ==
    /\ call.op = "to_dict"
    /\ Get(rb)._data = "0"
    /\ "data" \in DOMAIN Get(call.result)
    /\ Get(call.result)["data"] = "0"

\* C10: ResponsePayloadBuilder.success(data).build() returns a payload whose error_code
\* is the predefined SUCCESS code, whose error_desc is the SUCCESS message and whose
\* data is the given data (None when success() is called without data).
C10_SuccessBuildsSuccessPayload ==
    call.op = "success" =>
        /\ call.raised = "none"
        /\ ~IsNone(rb)
        /\ LET r == ResponsePayloadBuilder_build(Get(rb))
           IN /\ r.raised = "none"
              /\ Get(r.value).error_code = SUCCESS.code
              /\ Get(r.value).error_desc = get_message(SUCCESS, NoKwargs)
              /\ Get(r.value).data = call.arg

\* C17: build() returns a payload if and only if with_error_code and with_error_desc
\* have each been called successfully on the builder (each stores its argument, so the
\* field is set from then on); otherwise it fails with ValueError.  No other field is
\* required.
C17_BuildNeedsOnlyCodeAndDesc ==
    (call.op = "build" /\ ~IsNone(rb)) =>
        /\ call.raised = "none"
              <=> (~IsNone(Get(rb)._error_code) /\ ~IsNone(Get(rb)._error_desc))
        /\ call.raised # "none" => call.raised = "ValueError"

\* C18: every payload returned by build() has an error_code of the form FUN followed by
\* exactly 9 decimal digits; with_error_code called with a string not of that form
\* raises ValueError and does not store it.
C18_BuiltErrorCodeIsFunPlusNineDigits ==
    /\ (call.op = "build" /\ call.raised = "none")
          => IsFunPlusNineDigits(Get(call.result).error_code)
    /\ (call.op = "with_error_code" /\ ~IsFunPlusNineDigits(call.arg))
          => /\ call.raised = "ValueError"
             /\ Get(rb)._error_code # Some(call.arg)

\* C19: every payload returned by build() carries a message_datetime with offset
\* information, defaulted or set by the caller; with_message_datetime called with a
\* naive timestamp raises ValueError and does not store it.
C19_BuiltDatetimeHasOffset ==
    /\ (call.op = "build" /\ call.raised = "none")
          => Get(call.result).message_datetime.tzinfo # ""
    /\ (call.op = "with_message_datetime" /\ call.arg.tzinfo = "")
          => /\ call.raised = "ValueError"
             /\ Get(rb)._message_datetime # call.arg

\* a payload was built after the caller set a timestamp with an offset
C19_Witness_BuiltWithCallerDatetime ==
    /\ call.op = "build" /\ call.raised = "none"
    /\ Get(call.result).message_datetime = [local |-> "2024-01-01T12:00:00", tzinfo |-> "+00:00"]

\* C11: ResponsePayloadBuilder().with_error(code, **params).build() returns a payload
\* whose error_code is code.code and whose error_desc is code.get_message(**params), for
\* every registered ErrorCode and parameter map.
C11_WithErrorSetsCodeAndRenderedDesc ==
    call.op = "with_error" =>
        /\ call.raised = "none"
        /\ ~IsNone(rb)
        /\ LET r == ResponsePayloadBuilder_build(Get(rb))
           IN /\ r.raised = "none"
              /\ Get(r.value).error_code = call.arg.code.code
              /\ Get(r.value).error_desc = get_message(call.arg.code, call.arg.params)

(***************************************************************************)
(* Exceptions: ErrorCodes are defined first, then exceptions are raised    *)
(* with them and converted to payloads.                                    *)
(***************************************************************************)
InitException == ValidatorIdle /\ RegistryStart /\ PagingIdle /\ ResponseIdle

ExceptionFrame == UNCHANGED <<rb, validatorVars, registryVars, pagingVars>>

Hows == {"default", "True", "False"}

\* the ErrorCodes an exception is raised with: a predefined one and the defined ones
RaisableCodes == {VALIDATION_ERROR} \cup {log[i] : i \in (Len(CommonErrorCodes) + 1)..Len(log)}

\* an exception has been constructed: e
Raise(e, how) ==
    /\ exc' = Some(e)
    /\ payload' = None
    /\ call' = [op |-> e.type, arg |-> how, raised |-> "none", result |-> None]
    /\ ExceptionFrame

\* how many ErrorCode instances are defined before exceptions are raised
MaxDefinitions == 1

\* ErrorCode(...) while the codes are being defined
DefineErrorCode(code, template) ==
    /\ IsNone(exc)
    /\ Len(log) < Len(CommonErrorCodes) + MaxDefinitions
    /\ NewErrorCode(code, "ERROR", template)

\* FunAPIException(error_code, message_params, data, stack_trace)
RaiseFunAPIException(error_code, message_params, data, stack_trace) ==
    /\ error_code \in RaisableCodes
    /\ Raise(FunAPIException("FunAPIException", error_code, message_params, data, stack_trace),
             "explicit")

\* include_trace: "default" when the argument is left out, else "True" or "False"
IncludeTrace(type, how) == IF how = "default" THEN DefaultIncludeTrace(type) ELSE how = "True"

RaiseValidationError(reason, data, how, tb) ==
    /\ how \in Hows
    /\ Raise(ValidationError(reason, data, IncludeTrace("ValidationError", how), tb), how)

RaiseEntityNotFoundError(identifier, entity_name, data, how, tb) ==
    /\ how \in Hows
    /\ Raise(EntityNotFoundError(identifier, entity_name, data,
                                 IncludeTrace("EntityNotFoundError", how), tb), how)

RaiseAPIError(message, data, how, tb) ==
    /\ how \in Hows
    /\ Raise(APIError(message, data, IncludeTrace("APIError", how), tb), how)

RaiseNetworkError(message, data, how, tb) ==
    /\ how \in Hows
    /\ Raise(NetworkError(message, data, IncludeTrace("NetworkError", how), tb), how)

RaiseIllegalOperationError(reason, data, how, tb) ==
    /\ how \in Hows
    /\ Raise(IllegalOperationError(reason, data, IncludeTrace("IllegalOperationError", how), tb),
             how)

RaiseUnknownError(message, data, how, tb) ==
    /\ how \in Hows
    /\ Raise(UnknownError(message, data, IncludeTrace("UnknownError", how), tb), how)

\* e.to_response_payload()
ToResponsePayload(uuid, now) ==
    /\ ~IsNone(exc)
    /\ LET r == to_response_payload(Get(exc), uuid, now)
       IN /\ payload' = r.value
          /\ call' = [op |-> "to_response_payload", arg |-> "", raised |-> r.raised,
                      result |-> r.value]
    /\ UNCHANGED exc
    /\ ExceptionFrame

\* ResponsePayloadBuilder.from_exception(e), as the tests call it: the class defines no
\* such attribute, so the lookup raises and the caller gets no builder
FromException ==
    /\ ~IsNone(exc)
    /\ call' = [op |-> "from_exception", arg |-> "",
                raised |-> ClassAttributeLookup("from_exception"), result |-> None]
    /\ payload' = None
    /\ UNCHANGED exc
    /\ ExceptionFrame

SubtypeData == {"None", "{'id': 1}"}

ExceptionTemplates == { <<>>, <<Lit("Custom error: "), Field("detail")>>, <<Field("detail")>> }

ExceptionKwargs == { None, Some(Kw1("detail", "disk full")), Some(Kw1("detail", "")) }

ExceptionTraces == { None, Some(""), Some("Traceback (most recent call last): ...") }

NextException ==
    \/ \E c \in {Custom1, Invalid}, t \in ExceptionTemplates : DefineErrorCode(c, t)
    \/ \E ec \in RaisableCodes, kw \in ExceptionKwargs, x \in DataValues,
          t \in ExceptionTraces : RaiseFunAPIException(ec, kw, x, t)
    \/ \E r \in Texts, x \in SubtypeData, h \in Hows, tb \in TraceTexts :
          RaiseValidationError(r, x, h, tb)
    \/ \E i \in {"42"}, n \in {"User"}, x \in SubtypeData, h \in Hows, tb \in TraceTexts :
          RaiseEntityNotFoundError(i, n, x, h, tb)
    \/ \E m \in Texts, x \in SubtypeData, h \in Hows, tb \in TraceTexts :
          RaiseAPIError(m, x, h, tb)
    \/ \E m \in Texts, x \in SubtypeData, h \in Hows, tb \in TraceTexts :
          RaiseNetworkError(m, x, h, tb)
    \/ \E r \in Texts, x \in SubtypeData, h \in Hows, tb \in TraceTexts :
          RaiseIllegalOperationError(r, x, h, tb)
    \/ \E m \in {None, Some(""), Some("out of memory")}, x \in SubtypeData, h \in Hows,
          tb \in TraceTexts : RaiseUnknownError(m, x, h, tb)
    \/ \E u \in UUIDs, n \in Nows : ToResponsePayload(u, n)
    \/ FromException

SpecException == InitException /\ [][NextException]_vars

(***************************************************************************)
(* Properties of the exceptions                                            *)
(***************************************************************************)
\* C7: for every FunAPIException e, with every value of e.data and e.stack_trace (zero,
\* false, empty collection and empty string included), the payload e.to_response_payload()
\* returns has error_code = e.error_code.code, error_desc = the message rendered at
\* construction, data = e.data and recorded trace = e.stack_trace.
C7_PayloadCopiesTheException ==
    (call.op = "to_response_payload" /\ call.raised = "none") =>
        LET e == Get(exc)
            p == Get(payload)
        IN /\ p.error_code = e.error_code.code
           /\ p.error_desc = e.message
           /\ p.data = e.data
           /\ p._stack_trace = e.stack_trace

\* C8: for every FunAPIException built from a successfully constructed ErrorCode (any
\* message template) and any parameter map, also when the rendered message is the
\* empty string, to_response_payload() returns a ResponsePayload and never raises.
C8_ToResponsePayloadNeverRaises ==
    call.op = "to_response_payload" =>
        /\ call.raised = "none"
        /\ ~IsNone(payload)

\* the names of the placeholders of a template
Placeholders(t) == { t[i].text : i \in {j \in 1..Len(t) : t[j].kind = "field"} }

RECURSIVE Substituted(_, _)
\* the template with each placeholder replaced by its parameter
Substituted(t, kw) ==
    IF t = <<>> THEN ""
    ELSE (IF Head(t).kind = "lit" THEN Head(t).text ELSE kw[Head(t).text])
            \o Substituted(Tail(t), kw)

Subtypes ==
    {"ValidationError", "EntityNotFoundError", "APIError", "NetworkError",
     "IllegalOperationError", "UnknownError"}

\* C9: for each concrete exception subtype, the parameter map it passes supplies every
\* placeholder of the template of the ErrorCode it binds, so the stored message is
\* that template with each placeholder replaced (no missing-parameter note).
C9_SubtypesSupplyEveryPlaceholder ==
    (~IsNone(exc) /\ Get(exc).type \in Subtypes) =>
        LET e == Get(exc)
        IN /\ Placeholders(e.error_code.message_template) \subseteq DOMAIN e.message_params
           /\ e.message = Substituted(e.error_code.message_template, e.message_params)

\* C20: constructed without an include_trace argument, ValidationError,
\* EntityNotFoundError and IllegalOperationError record no trace, while APIError,
\* NetworkError and UnknownError record one; an explicit include_trace=True or False
\* overrides the default for every subtype.
C20_DefaultTracePolicy ==
    (~IsNone(exc) /\ call.op \in Subtypes) =>
        LET e == Get(exc)
            how == call.arg
            quiet == {"ValidationError", "EntityNotFoundError", "IllegalOperationError"}
        IN /\ e.type = call.op
           /\ how = "default" => (IsNone(e.stack_trace) <=> e.type \in quiet)
           /\ how = "True" => ~IsNone(e.stack_trace)
           /\ how = "False" => IsNone(e.stack_trace)

\* an IllegalOperationError constructed without include_trace: no trace recorded
C20_Witness_IllegalOperationDefaultsToNoTrace ==
    /\ ~IsNone(exc)
    /\ call.op = "IllegalOperationError" /\ call.arg = "default"
    /\ IsNone(Get(exc).stack_trace)

\* C12: ResponsePayloadBuilder.from_exception(e).build() returns a payload whose
\* error_code, error_desc, data and recorded trace are the code, the rendered message,
\* the data and the trace of the exception e.
C12_FromExceptionCopiesTheException ==
    call.op = "from_exception" =>
        /\ call.raised = "none"
        /\ ~IsNone(rb)
        /\ LET r == ResponsePayloadBuilder_build(Get(rb))
               e == Get(exc)
           IN /\ r.raised = "none"
              /\ Get(r.value).error_code = e.error_code.code
              /\ Get(r.value).error_desc = e.message
              /\ Get(r.value).data = e.data
              /\ Get(r.value)._stack_trace = e.stack_trace

(***************************************************************************)
(* Rendering messages: get_message is called on ErrorCodes with all kinds  *)
(* of templates and parameter maps.                                        *)
(***************************************************************************)
MessageTemplates ==
    { <<>>,
      <<Lit("Validation failed: "), Field("reason")>>,
      <<Lit("Custom error: "), Field("detail")>>,
      <<Field("detail"), Lit(" / "), Field("reason")>>,
      <<Lit("raised by "), Field("self")>>,
      <<AutoField>>,
      <<AutoField, Lit(" "), Field("detail")>> }

MessageKeys == {"detail", "reason", "self"}

MessageValues == {"", "disk full"}

\* every parameter map over some of the keys
MessageKwargs == UNION { [ks -> MessageValues] : ks \in SUBSET MessageKeys }

InitMessage == ValidatorIdle /\ RegistryStart /\ PagingIdle /\ ResponseIdle

\* ErrorCode(code, severity, template).get_message(**kwargs)
GetMessage(template, kwargs) ==
    /\ LET ec == ErrorCodeInstance(0, Custom1, "ERROR", template)
           r == CallGetMessage(ec, kwargs)
       IN call' = [op |-> "get_message", arg |-> [template |-> template, params |-> kwargs],
                   raised |-> r.raised, result |-> r.value]
    /\ UNCHANGED <<rb, payload, exc, validatorVars, registryVars, pagingVars>>

NextMessage == \E t \in MessageTemplates, kw \in MessageKwargs : GetMessage(t, kw)

SpecMessage == InitMessage /\ [][NextMessage]_vars

\* the first named placeholder of the template that the map does not supply
RECURSIVE FirstMissing(_, _)
FirstMissing(t, kw) ==
    IF Head(t).kind = "field" /\ Head(t).text \notin DOMAIN kw THEN Head(t).text
    ELSE FirstMissing(Tail(t), kw)

HasAutoField(t) == \E i \in 1..Len(t) : t[i].kind = "auto"

\* C13: get_message never raises, for any template and any parameter map; when every
\* placeholder is supplied it returns the template with the placeholders substituted;
\* when a named placeholder is missing it returns the unrendered template followed by a
\* note naming the missing key.
C13_GetMessageNeverRaises ==
    call.op = "get_message" =>
        LET t == call.arg.template
            kw == call.arg.params
        IN /\ call.raised = "none"
           /\ ~IsNone(call.result)
           /\ (Placeholders(t) \subseteq DOMAIN kw /\ ~HasAutoField(t))
                 => Get(call.result) = Substituted(t, kw)
           /\ ~(Placeholders(t) \subseteq DOMAIN kw)
                 => Get(call.result) =
                        TemplateText(t) \o " (missing format parameter: '"
                            \o FirstMissing(t, kw) \o "')"

(***************************************************************************)
(* Threads on the registry.  Each thread runs one operation; a step is one *)
(* operation of the interpreter on the dict (an attribute load, an item    *)
(* assignment, a get, a values(), a list(...), a copy()), which the        *)
(* interpreter runs without switching threads.                             *)
(***************************************************************************)
ThreadCodes == {Custom1, Custom2, Invalid}

ThreadLookupCodes == {Custom1, NeverUsed}

InitThreads == ValidatorIdle /\ RegistryStart /\ PagingIdle /\ ResponseIdle

ThreadFrame == UNCHANGED <<regCall, held, validatorVars, pagingVars, responseVars>>

\* the instance thread t constructs
ThreadInstance(t) ==
    ErrorCodeInstance(Len(CommonErrorCodes) + t, threads[t].code, "ERROR",
                      <<Lit("Custom error: "), Field("detail")>>)

\* thread t begins ErrorCode(code, ...)
ThreadNewErrorCode(t, code) ==
    /\ threads[t].pc = "idle"
    /\ threads' = [threads EXCEPT ![t] = [NoThread EXCEPT !.op = "ErrorCode", !.code = code,
                                                           !.pc = "validate"]]
    /\ UNCHANGED <<registry, log>>
    /\ ThreadFrame

\* __post_init__: `if not self._validate_code_format(self.code): raise ValueError`
ThreadValidate(t) ==
    /\ threads[t].pc = "validate"
    /\ threads' = [threads EXCEPT ![t] =
                      IF _validate_code_format(threads[t].code)
                      THEN [@ EXCEPT !.pc = "load"]
                      ELSE [@ EXCEPT !.pc = "done", !.raised = "ValueError"]]
    /\ UNCHANGED <<registry, log>>
    /\ ThreadFrame

\* __post_init__: the attribute load `ErrorCode._registry`
ThreadLoadRegistry(t) ==
    /\ threads[t].pc = "load"
    /\ threads' = [threads EXCEPT ![t] = [@ EXCEPT !.pc = "store", !.seen = registry]]
    /\ UNCHANGED <<registry, log>>
    /\ ThreadFrame

\* __post_init__: the item assignment `[self.code] = self`
ThreadStore(t) ==
    /\ threads[t].pc = "store"
    /\ registry' = StoreSubscr(registry, threads[t].seen, ThreadInstance(t))
    /\ log' = Append(log, ThreadInstance(t))
    /\ threads' = [threads EXCEPT ![t] = [@ EXCEPT !.pc = "done",
                                                   !.result = Some(ThreadInstance(t))]]
    /\ ThreadFrame

\* thread t runs get_by_code(code): `cls._registry.get(code)`
ThreadGetByCode(t, code) ==
    /\ threads[t].pc = "idle"
    /\ threads' = [threads EXCEPT ![t] =
                      [NoThread EXCEPT !.op = "get_by_code", !.code = code, !.pc = "done",
                                       !.result = Some(ErrorCode_get_by_code(registry, code))]]
    /\ UNCHANGED <<registry, log>>
    /\ ThreadFrame

\* thread t begins get_all_codes(): `ErrorCode._registry.values()`, a view of the dict
ThreadValues(t) ==
    /\ threads[t].pc = "idle"
    /\ threads' = [threads EXCEPT ![t] = [NoThread EXCEPT !.op = "get_all_codes",
                                                           !.pc = "list"]]
    /\ UNCHANGED <<registry, log>>
    /\ ThreadFrame

\* get_all_codes(): `list(...)` of the view
ThreadList(t) ==
    /\ threads[t].pc = "list"
    /\ threads' = [threads EXCEPT ![t] = [@ EXCEPT !.pc = "done",
                                                   !.result = Some(get_all_codes(registry, log))]]
    /\ UNCHANGED <<registry, log>>
    /\ ThreadFrame

\* thread t runs get_registry(): `ErrorCode._registry.copy()`
ThreadCopy(t) ==
    /\ threads[t].pc = "idle"
    /\ threads' = [threads EXCEPT ![t] = [NoThread EXCEPT !.op = "get_registry", !.pc = "done",
                                                           !.result = Some(get_registry(registry))]]
    /\ UNCHANGED <<registry, log>>
    /\ ThreadFrame

NextThreads ==
    \E t \in Threads :
        \/ \E c \in ThreadCodes : ThreadNewErrorCode(t, c)
        \/ ThreadValidate(t)
        \/ ThreadLoadRegistry(t)
        \/ ThreadStore(t)
        \/ \E c \in ThreadLookupCodes : ThreadGetByCode(t, c)
        \/ ThreadValues(t)
        \/ ThreadList(t)
        \/ ThreadCopy(t)

SpecThreads == InitThreads /\ [][NextThreads]_vars

\* the instances constructed successfully with code c so far
ConstructedWith(c) == { log[i] : i \in {j \in 1..Len(log) : log[j].code = c} }

\* the registry as it was after the first k successful constructions
RegistryAfter(k) == RegisterAll(EmptyRegistry, SubSeq(log, 1, k))

\* the moments the registry has been through since the package was imported
Moments == Len(CommonErrorCodes)..Len(log)

\* C14: under every interleaving of constructions, lookups and enumerations in
\* concurrent threads, no registration is lost (every successfully constructed code is
\* present and mapped to one of the instances constructed with that code) and no lookup
\* or enumeration fails or observes a registry that never existed as a whole.
C14_NoLostRegistrationNoTornRead ==
    /\ \A i \in 1..Len(log) :
          /\ log[i].code \in DOMAIN registry
          /\ registry[log[i].code] \in ConstructedWith(log[i].code)
    /\ \A t \in Threads :
          LET th == threads[t]
          IN /\ (th.op = "ErrorCode" /\ th.pc = "done" /\ th.raised = "none")
                   => \E i \in 1..Len(log) : log[i] = ThreadInstance(t)
             /\ th.op \in {"get_by_code", "get_all_codes", "get_registry"}
                   => th.raised = "none"
             /\ (th.op = "get_by_code" /\ th.pc = "done")
                   => \/ Get(th.result) = None
                      \/ Get(Get(th.result)) \in ConstructedWith(th.code)
             /\ (th.op = "get_registry" /\ th.pc = "done")
                   => \E k \in Moments : Get(th.result).items = RegistryAfter(k)
             /\ (th.op = "get_all_codes" /\ th.pc = "done")
                   => \E k \in Moments :
                         Get(th.result).items
                             = ValuesInOrder(RegistryAfter(k), SubSeq(log, 1, k))

\* two threads have each loaded the registry before the other stored, and both
\* registrations are there
C14_Witness_BothLoadedBeforeEitherStored ==
    \E t1, t2 \in Threads :
        /\ threads[t1].op = "ErrorCode" /\ threads[t1].pc = "done"
        /\ threads[t2].op = "ErrorCode" /\ threads[t2].pc = "done"
        /\ threads[t1].code = Custom1 /\ threads[t2].code = Custom2
        /\ threads[t1].raised = "none" /\ threads[t2].raised = "none"
        /\ Custom2 \notin DOMAIN threads[t1].seen
        /\ Custom1 \notin DOMAIN threads[t2].seen
        /\ registry[Custom1] = ThreadInstance(t1)
        /\ registry[Custom2] = ThreadInstance(t2)

(***************************************************************************)
(* Snapshots: a caller takes the registry's contents with get_all_codes or *)
(* get_registry, then changes the collection it got while ErrorCodes go on *)
(* being constructed.  held is Some of: obj, the collection object; was,   *)
(* what it held when it was returned, with the caller's own changes        *)
(* applied since; changes, how many changes the caller has made.           *)
(***************************************************************************)
\* how many changes the caller makes to the collection it holds
MaxChanges == 2

Changes == {"add", "remove", "replace"}

\* what the collection object holds: the registry's items if it is the registry itself
Contents(obj) == IF obj.alias THEN registry ELSE obj.items

\* d[k] = v on a dict
DictSet(d, k, v) == [c \in DOMAIN d \cup {k} |-> IF c = k THEN v ELSE d[c]]

\* del d[k] on a dict
DictDel(d, k) == [c \in DOMAIN d \ {k} |-> d[c]]

\* the caller's changes: on a dict d[new key] = x, del d[key], d[key] = x; on a list
\* append(x), pop(), l[0] = x
CanChange(kind, items, m) ==
    IF kind = "dict" THEN (m = "remove" => SUCCESS.code \in DOMAIN items)
    ELSE (m \in {"remove", "replace"} => Len(items) > 0)

Changed(kind, items, m) ==
    IF kind = "dict"
    THEN CASE m = "add" -> DictSet(items, NeverUsed, SUCCESS)
           [] m = "remove" -> DictDel(items, SUCCESS.code)
           [] OTHER -> DictSet(items, VALIDATION_ERROR.code, SUCCESS)
    ELSE CASE m = "add" -> Append(items, SUCCESS)
           [] m = "remove" -> SubSeq(items, 1, Len(items) - 1)
           [] OTHER -> [items EXCEPT ![1] = UNKNOWN_ERROR]

InitSnapshot == ValidatorIdle /\ RegistryStart /\ PagingIdle /\ ResponseIdle

SnapshotFrame == UNCHANGED <<threads, validatorVars, pagingVars, responseVars>>

\* the caller keeps what a call returned
Take(obj) ==
    /\ held' = Some([obj |-> obj, was |-> Contents(obj), changes |-> 0])
    /\ UNCHANGED <<registry, log, regCall>>
    /\ SnapshotFrame

\* held = ErrorCodeRegistry.get_all_codes()
TakeAllCodes ==
    /\ IsNone(held)
    /\ Take(get_all_codes(registry, log))

\* held = ErrorCodeRegistry.get_registry()
TakeRegistry ==
    /\ IsNone(held)
    /\ Take(get_registry(registry))

\* the caller changes the collection it holds
ChangeHeld(m) ==
    /\ ~IsNone(held)
    /\ Get(held).changes < MaxChanges
    /\ LET h == Get(held)
           now == Changed(h.obj.kind, Contents(h.obj), m)
       IN /\ CanChange(h.obj.kind, Contents(h.obj), m)
          /\ CanChange(h.obj.kind, h.was, m)
          /\ registry' = IF h.obj.alias THEN now ELSE registry
          /\ held' = Some([obj |-> IF h.obj.alias THEN h.obj
                                    ELSE [h.obj EXCEPT !.items = now],
                            was |-> Changed(h.obj.kind, h.was, m),
                            changes |-> h.changes + 1])
    /\ UNCHANGED <<log, regCall>>
    /\ SnapshotFrame

NextSnapshot ==
    \/ \E c \in {Custom1, Custom2, SUCCESS.code, Invalid}, t \in {<<>>, <<Field("detail")>>} :
          NewErrorCode(c, "ERROR", t)
    \/ TakeAllCodes
    \/ TakeRegistry
    \/ \E m \in Changes : ChangeHeld(m)

SpecSnapshot == InitSnapshot /\ [][NextSnapshot]_vars

\* C15: the collection returned by get_all_codes() or get_registry() is a snapshot:
\* ErrorCodes constructed after the call do not change it (it holds what it held when
\* it was returned, plus the caller's own changes), and adding to, removing from or
\* replacing entries of it does not change the registry (which holds exactly what the
\* constructions put there).
C15_ReturnedCollectionIsASnapshot ==
    /\ registry = RegisterAll(EmptyRegistry, log)
    /\ ~IsNone(held) => Contents(Get(held).obj) = Get(held).was

\* a dict was taken and SUCCESS removed from it, then Custom1 was constructed: the
\* registry has both, the held dict neither
C15_Witness_ChangedOnBothSides ==
    /\ ~IsNone(held)
    /\ Get(held).obj.kind = "dict"
    /\ Get(held).changes > 0
    /\ regCall.op = "ErrorCode" /\ regCall.raised = "none" /\ regCall.code = Custom1
    /\ Custom1 \notin DOMAIN regCall.before
    /\ Custom1 \in DOMAIN registry /\ SUCCESS.code \in DOMAIN registry
    /\ Custom1 \notin DOMAIN Contents(Get(held).obj)
    /\ SUCCESS.code \notin DOMAIN Contents(Get(held).obj)

(***************************************************************************)
(* Orders of a paging payload.  Lists are objects: heap maps the address   *)
(* of each list to what it holds, and the _orders field of the builder and *)
(* the orders field of a payload hold an address.  The builder has its     *)
(* four scalar fields set; the caller sets and adds orders, builds, and    *)
(* goes on using the builder and its own list.                             *)
(***************************************************************************)
\* how long a list of orders gets
MaxOrders == 2

\* how many payloads are built from the builder
MaxBuilds == 2

Orderings == { [property |-> "name", direction |-> "ASC"],
               [property |-> "createTime", direction |-> "DESC"] }

\* PagingPayloadBuilder().with_page(0).with_page_size(10).with_total_elements(25)
\* .with_total_pages(3); __init__ has made the builder's own list
ReadyBuilder ==
    LET b0 == [NewPagingPayloadBuilder EXCEPT !._orders = OwnList]
        b1 == with_page(b0, 0).b
        b2 == with_page_size(b1, 10).b
        b3 == with_total_elements(b2, 25).b
    IN with_total_pages(b3, 3).b

InitOrders ==
    /\ ValidatorIdle /\ RegistryStart /\ ResponseIdle
    /\ pb = ReadyBuilder /\ pbChain = NoChain
    /\ heap = NoLists /\ built = <<>>

OrdersFrame == UNCHANGED <<pbChain, validatorVars, registryVars, responseVars>>

\* builder.with_orders(orders), orders being the caller's list
OrdersWithOrders ==
    /\ pb' = with_orders(pb, CallerList).b
    /\ UNCHANGED <<heap, built>>
    /\ OrdersFrame

\* builder.add_order(order)
OrdersAddOrder(order) ==
    /\ Len(heap[pb._orders]) < MaxOrders
    /\ heap' = add_order(heap, pb, order)
    /\ UNCHANGED <<pb, built>>
    /\ OrdersFrame

\* orders.append(order) by the caller on its own list
CallerAppend(order) ==
    /\ Len(heap[CallerList]) < MaxOrders
    /\ heap' = [heap EXCEPT ![CallerList] = Append(@, order)]
    /\ UNCHANGED <<pb, built>>
    /\ OrdersFrame

\* builder.build(): the payload is kept, with what its orders held when it was built
OrdersBuild ==
    /\ Len(built) < MaxBuilds
    /\ LET r == PagingPayloadBuilder_build(pb)
       IN /\ r.raised = "none"
          /\ built' = Append(built, [payload |-> Get(r.value),
                                      asBuilt |-> heap[Get(r.value).orders]])
    /\ UNCHANGED <<pb, heap>>
    /\ OrdersFrame

\* payload.to_dict() on the i-th payload built: its orders are read from the list
\* object the payload refers to, as it is now
OrdersToDict(i) ==
    /\ i \in 1..Len(built)
    /\ LET p == built[i].payload
       IN call' = [op |-> "PagingPayload.to_dict", arg |-> i, raised |-> "none",
                   result |-> Some(PagingPayload_to_dict([p EXCEPT !.orders = heap[@]]))]
    /\ UNCHANGED <<pb, heap, built, rb, payload, exc, pbChain, validatorVars, registryVars>>

NextOrders ==
    \/ OrdersWithOrders
    \/ \E o \in Orderings : OrdersAddOrder(o)
    \/ \E o \in Orderings : CallerAppend(o)
    \/ OrdersBuild
    \/ \E i \in 1..MaxBuilds : OrdersToDict(i)

SpecOrders == InitOrders /\ [][NextOrders]_vars

\* C16: a PagingPayload is immutable once built: no later operation on the builder
\* (add_order, with_orders, another build) and no change to a list handed to
\* with_orders alters its contents, its orders included; two payloads built from the
\* same builder share no mutable state.
C16_BuiltPagingPayloadNeverChanges ==
    /\ \A i \in 1..Len(built) : heap[built[i].payload.orders] = built[i].asBuilt
    /\ \A i, j \in 1..Len(built) :
          i # j => built[i].payload.orders # built[j].payload.orders

\* C24: PagingPayload.to_dict() emits an orders list with the same length and the same
\* order as the orderings the builder held when the payload was built, each serialised
\* as its {property, direction} pair.
C24_ToDictEmitsOrdersAsBuilt ==
    call.op = "PagingPayload.to_dict" =>
        LET asBuilt == built[call.arg].asBuilt
            orders == Get(call.result).orders
        IN /\ Len(orders) = Len(asBuilt)
           /\ \A i \in 1..Len(asBuilt) :
                 orders[i] = [property |-> asBuilt[i].property,
                              direction |-> asBuilt[i].direction]

(***************************************************************************)
(* The catch-all: UnknownError is constructed with all kinds of messages   *)
(* and converted to a payload.                                             *)
(***************************************************************************)
UnknownMessages ==
    { None, Some(""), Some("out of memory"), Some("disk full"), Some("{x}") }

InitUnknown == ValidatorIdle /\ RegistryStart /\ PagingIdle /\ ResponseIdle

\* UnknownError(message, data, include_trace)
ConstructUnknownError(message, data, how, tb) ==
    /\ how \in Hows
    /\ exc' = Some(UnknownError(message, data, IncludeTrace("UnknownError", how), tb))
    /\ call' = [op |-> "UnknownError", arg |-> [message |-> message, how |-> how],
                raised |-> "none", result |-> None]
    /\ payload' = None
    /\ ExceptionFrame

NextUnknown ==
    \/ \E m \in UnknownMessages, x \in DataValues, h \in Hows, tb \in TraceTexts :
          ConstructUnknownError(m, x, h, tb)
    \/ \E u \in UUIDs, n \in Nows : ToResponsePayload(u, n)

SpecUnknown == InitUnknown /\ [][NextUnknown]_vars

\* the UNKNOWN_ERROR template filled with a message
UnknownRendered(m) == Substituted(UNKNOWN_ERROR.message_template, Kw1("message", m))

\* C21 as stated: UnknownError always binds UNKNOWN_ERROR (severity FATAL); constructed
\* with no message its rendered message is the template filled with the generic
\* fallback text, and constructed with a message it is the template filled with that
\* message.
C21_Original_MessageGivenIsRendered ==
    (call.op = "UnknownError" /\ ~IsNone(exc)) =>
        LET e == Get(exc)
            m == call.arg.message
        IN /\ e.error_code = UNKNOWN_ERROR /\ e.error_code.severity = "FATAL"
           /\ IsNone(m) => e.message = UnknownRendered(UnknownErrorFallback)
           /\ ~IsNone(m) => e.message = UnknownRendered(Get(m))

\* C21 (amended): UnknownError always binds UNKNOWN_ERROR (severity FATAL); constructed
\* with no message or with an empty one its rendered message is the template filled
\* with the generic fallback text, and constructed with a non-empty message it is the
\* template filled with that message.
C21_FallbackForMissingOrEmptyMessage ==
    (call.op = "UnknownError" /\ ~IsNone(exc)) =>
        LET e == Get(exc)
            m == call.arg.message
        IN /\ e.error_code = UNKNOWN_ERROR /\ e.error_code.severity = "FATAL"
           /\ (IsNone(m) \/ m = Some(""))
                 => e.message = UnknownRendered(UnknownErrorFallback)
           /\ (~IsNone(m) /\ m # Some(""))
                 => e.message = UnknownRendered(Get(m))

\* UnknownError("") has been constructed and carries the fallback text
C21_Witness_EmptyMessageGetsFallback ==
    /\ call.op = "UnknownError" /\ call.arg.message = Some("")
    /\ ~IsNone(exc)
    /\ Get(exc).message = UnknownRendered(UnknownErrorFallback)

(***************************************************************************)
(* The validators on arguments of any type.  A Python value is a record of *)
(* its type and, under a field named after the type, its value; the        *)
(* validators are static methods without type checks, so what they do with *)
(* a value depends on what the operations in their bodies do with a value  *)
(* of that type.                                                           *)
(***************************************************************************)
PyNone == [type |-> "NoneType"]

PyInt(i) == [type |-> "int", int |-> i]

PyStr(chars) == [type |-> "str", str |-> chars]

PyBytes(chars) == [type |-> "bytes", bytes |-> chars]

PyDatetime(dt) == [type |-> "datetime", datetime |-> dt]

PyList(items) == [type |-> "list", list |-> items]

PyDict(items) == [type |-> "dict", dict |-> items]

\* validate_error_code(x): re.match takes a str; with a str pattern it raises TypeError
\* for anything else (None, an int, bytes)
AnyValidateErrorCode(x) ==
    IF x.type = "str"
    THEN [raised |-> "none", value |-> Some(validate_error_code(x.str))]
    ELSE [raised |-> "TypeError", value |-> None]

\* validate_datetime_format(x): `x.tzinfo` is an AttributeError unless x is a datetime
AnyValidateDatetimeFormat(x) ==
    IF x.type = "datetime"
    THEN [raised |-> "none", value |-> Some(validate_datetime_format(x.datetime))]
    ELSE [raised |-> "AttributeError", value |-> None]

\* validate_paging_params(x): `key in params`, outside the try block, is a TypeError for
\* None and for an int and is false for every key on an empty list; on a dict, a
\* comparison of a value that is not a number raises TypeError inside the try block,
\* which returns False (as does any comparison that fails before it)
AnyValidatePagingParams(x) ==
    CASE x.type \in {"NoneType", "int"} -> [raised |-> "TypeError", value |-> None]
      [] x.type = "list" -> [raised |-> "none", value |-> Some(FALSE)]
      [] OTHER ->
            LET d == x.dict
            IN IF ~(RequiredKeys \subseteq DOMAIN d)
               THEN [raised |-> "none", value |-> Some(FALSE)]
               ELSE IF \E k \in RequiredKeys : d[k].type # "int"
               THEN [raised |-> "none", value |-> Some(FALSE)]
               ELSE [raised |-> "none",
                     value |-> Some(validate_paging_params([k \in DOMAIN d |-> d[k].int]))]

AnyCodes ==
    { PyNone, PyInt(123), PyBytes(Custom1), PyStr(Custom1), PyStr(Invalid), PyStr(<<>>) }

AnyDatetimes ==
    { PyNone, PyStr(<<"2", "0", "2", "4", "-", "0", "1", "-", "0", "1">>), PyInt(0) }
        \cup { PyDatetime(dt) : dt \in BuilderDatetimes \cup Nows }

\* the values under a key of the params dict
AnyPagingValues == { PyNone, PyStr(<<"1">>), PyInt(-1), PyInt(0), PyInt(1) }

\* every dict over some of the required keys
AnyPagingDicts ==
    UNION { { PyDict(d) : d \in [ks -> AnyPagingValues] } : ks \in SUBSET RequiredKeys }

AnyPagingParams == { PyNone, PyInt(5), PyList(<<>>) } \cup AnyPagingDicts

InitAnyInput == ValidatorIdle /\ RegistryStart /\ PagingIdle /\ ResponseIdle

\* a validator has been called with x: r is what it returned or raised
ValidatorCall(name, x, r) ==
    /\ call' = [op |-> name, arg |-> x, raised |-> r.raised, result |-> r.value]
    /\ UNCHANGED <<rb, payload, exc, validatorVars, registryVars, pagingVars>>

CallValidateErrorCode(x) ==
    /\ x \in AnyCodes
    /\ ValidatorCall("validate_error_code", x, AnyValidateErrorCode(x))

CallValidateDatetimeFormat(x) ==
    /\ x \in AnyDatetimes
    /\ ValidatorCall("validate_datetime_format", x, AnyValidateDatetimeFormat(x))

CallValidatePagingParams(x) ==
    /\ x \in AnyPagingParams
    /\ ValidatorCall("validate_paging_params", x, AnyValidatePagingParams(x))

NextAnyInput ==
    \/ \E x \in AnyCodes : CallValidateErrorCode(x)
    \/ \E x \in AnyDatetimes : CallValidateDatetimeFormat(x)
    \/ \E x \in AnyPagingParams : CallValidatePagingParams(x)

SpecAnyInput == InitAnyInput /\ [][NextAnyInput]_vars

\* C22: each validator returns a boolean and never raises, for every input including
\* None and values of the wrong type; validate_paging_params returns False when a value
\* of the dict cannot be compared as a number.
C22_ValidatorsNeverRaise ==
    (call.op \in {"validate_error_code", "validate_datetime_format",
                  "validate_paging_params"}) =>
        /\ call.raised = "none"
        /\ call.result \in {Some(TRUE), Some(FALSE)}
        /\ (/\ call.op = "validate_paging_params"
            /\ call.arg.type = "dict"
            /\ \E k \in DOMAIN call.arg.dict : call.arg.dict[k].type # "int")
              => call.result = Some(FALSE)

(***************************************************************************)
(* A PagingPayloadBuilder under calls in any order: every setter with       *)
(* accepted and refused arguments, and build() at any moment.              *)
(***************************************************************************)
MaxSetterValue == 2

SetterValues == -1 .. MaxSetterValue

InitSetters == ValidatorIdle /\ RegistryStart /\ PagingIdle /\ ResponseIdle

\* a setter called on the paging builder: r is what it returns or raises
PagingSetterCall(name, arg, r) ==
    /\ pb' = r.b
    /\ call' = [op |-> name, arg |-> arg, raised |-> r.raised, result |-> None,
                message |-> <<>>]
    /\ UNCHANGED <<rb, payload, exc, pbChain, heap, built, validatorVars, registryVars>>

SetPage(page) ==
    PagingSetterCall("PagingPayloadBuilder.with_page", page, with_page(pb, page))

SetPageSize(page_size) ==
    PagingSetterCall("PagingPayloadBuilder.with_page_size", page_size,
                     with_page_size(pb, page_size))

SetTotalElements(total_elements) ==
    PagingSetterCall("PagingPayloadBuilder.with_total_elements", total_elements,
                     with_total_elements(pb, total_elements))

SetTotalPages(total_pages) ==
    PagingSetterCall("PagingPayloadBuilder.with_total_pages", total_pages,
                     with_total_pages(pb, total_pages))

\* PagingPayloadBuilder.build() on the builder as it is
BuildPaging ==
    /\ LET r == PagingPayloadBuilder_build(pb)
       IN call' = [op |-> "PagingPayloadBuilder.build", arg |-> 0, raised |-> r.raised,
                   result |-> r.value, message |-> r.message]
    /\ UNCHANGED <<pb, rb, payload, exc, pbChain, heap, built, validatorVars, registryVars>>

NextSetters ==
    \/ \E v \in SetterValues : SetPage(v)
    \/ \E v \in SetterValues : SetPageSize(v)
    \/ \E v \in SetterValues : SetTotalElements(v)
    \/ \E v \in SetterValues : SetTotalPages(v)
    \/ BuildPaging

SpecSetters == InitSetters /\ [][NextSetters]_vars

\* the message shows key followed by the value v
Shows(message, key, v) ==
    \E i \in 1 .. (Len(message) - 1) : message[i] = key /\ message[i + 1] = ToString(v)

\* the call just made is the setter name of the paging builder
IsPagingSetter(name) == call.op = "PagingPayloadBuilder." \o name

\* C23: a PagingPayloadBuilder setter succeeds or fails by its own argument alone,
\* whatever the other fields hold and whatever was called before, and a successful one
\* stores its argument; page >= totalPages > 0 is detected by build() only, which
\* raises ValueError with a message showing the page and the totalPages that break the
\* constraint; build() on accepted fields fails for no other reason than a field not
\* set or that constraint.
C23_SettersCheckOnlyTheirArgument ==
    /\ IsPagingSetter("with_page") =>
          /\ call.raised = "none" <=> call.arg >= 0
          /\ call.raised = "none" => pb._page = Some(call.arg)
    /\ IsPagingSetter("with_page_size") =>
          /\ call.raised = "none" <=> call.arg > 0
          /\ call.raised = "none" => pb._page_size = Some(call.arg)
    /\ IsPagingSetter("with_total_elements") =>
          /\ call.raised = "none" <=> call.arg >= 0
          /\ call.raised = "none" => pb._total_elements = Some(call.arg)
    /\ IsPagingSetter("with_total_pages") =>
          /\ call.raised = "none" <=> call.arg >= 0
          /\ call.raised = "none" => pb._total_pages = Some(call.arg)
    /\ IsPagingSetter("build") =>
          LET unset == \E x \in {pb._page, pb._page_size, pb._total_elements,
                                 pb._total_pages} : IsNone(x)
              broken == /\ ~unset
                        /\ Get(pb._total_pages) > 0
                        /\ Get(pb._page) >= Get(pb._total_pages)
          IN /\ call.raised = "ValueError" <=> (unset \/ broken)
             /\ call.raised \in {"none", "ValueError"}
             /\ broken => /\ Shows(call.message, "page=", Get(pb._page))
                          /\ Shows(call.message, "totalPages=", Get(pb._total_pages))

\* with_page(2) accepted by a builder that already holds total_pages = 2
C23_Witness_PageSetAfterEqualTotalPages ==
    /\ IsPagingSetter("with_page") /\ call.arg = MaxSetterValue /\ call.raised = "none"
    /\ pb._total_pages = Some(MaxSetterValue)

(***************************************************************************)
(* The two builders side by side: the setters of a PagingPayloadBuilder,   *)
(* the calls of a ResponsePayloadBuilder that can raise, and build() of    *)
(* each, in any order, with accepted and refused arguments.                *)
(***************************************************************************)
FailingSetterValues == {-1, 0, 1}

FailingCodes == {Custom1, Invalid}

InitBuilders == ValidatorIdle /\ RegistryStart /\ PagingIdle /\ ResponseIdle

NextBuilders ==
    \/ \E v \in FailingSetterValues : SetPage(v)
    \/ \E v \in FailingSetterValues : SetPageSize(v)
    \/ \E v \in FailingSetterValues : SetTotalElements(v)
    \/ \E v \in FailingSetterValues : SetTotalPages(v)
    \/ BuildPaging
    \/ \E u \in UUIDs, n \in Nows : NewBuilder(u, n)
    \/ \E dt \in BuilderDatetimes : WithMessageDatetime(dt)
    \/ \E c \in FailingCodes : WithErrorCode(c)
    \/ \E d \in Texts : WithErrorDesc(d)
    \/ Build

SpecBuilders == InitBuilders /\ [][NextBuilders]_vars

\* the operations of the builders that raise ValueError
CanFail ==
    { "PagingPayloadBuilder.with_page", "PagingPayloadBuilder.with_page_size",
      "PagingPayloadBuilder.with_total_elements", "PagingPayloadBuilder.with_total_pages",
      "PagingPayloadBuilder.build", "with_error_code", "with_message_datetime", "build" }

\* what build() of the response builder gives, None standing for no builder
BuildsTo(b) == IF IsNone(b) THEN None ELSE Some(ResponsePayloadBuilder_build(Get(b)))

\* C26: a builder operation that raises leaves the builder as it was: after a setter or
\* a build() that raised ValueError every field of the paging builder and of the
\* response builder holds its previous value, and build() gives what it gave before.
C26_FailedCallLeavesBuilderUnchanged ==
    [][(call'.op \in CanFail /\ call'.raised # "none") =>
          /\ call'.raised = "ValueError"
          /\ pb' = pb
          /\ rb' = rb
          /\ PagingPayloadBuilder_build(pb') = PagingPayloadBuilder_build(pb)
          /\ BuildsTo(rb') = BuildsTo(rb)]_vars

\* with_page_size was refused by a paging builder that builds, and with_error_code by a
\* response builder that builds
C26_Witness_SetterRefusedOnValidBuilder ==
    /\ call.op \in {"PagingPayloadBuilder.with_page_size", "with_error_code"}
    /\ call.raised = "ValueError"
    /\ PagingPayloadBuilder_build(pb).raised = "none"
    /\ ~IsNone(rb) /\ ResponsePayloadBuilder_build(Get(rb)).raised = "none"

(***************************************************************************)
(* The requester's level and the serialisation                             *)
(***************************************************************************)
\* the dict without its stackTrace key
WithoutStackTrace(d) == [k \in DOMAIN d \ {"stackTrace"} |-> d[k]]

\* C27: the requester's level influences nothing but the trace: for every payload built
\* and every two levels the two to_dict results agree on every key but stackTrace and
\* hold messageId, messageDatetime, errorCode and errorDesc; to_dict changes neither
\* the payload nor the builder, so a serialisation gives what it would have given
\* before any other one was made.
C27_LevelInfluencesOnlyTheTrace ==
    /\ [](~IsNone(payload) =>
            \A l1, l2 \in UserLevel :
                LET d1 == to_dict(Get(payload), l1)
                    d2 == to_dict(Get(payload), l2)
                IN /\ WithoutStackTrace(d1) = WithoutStackTrace(d2)
                   /\ {"messageId", "messageDatetime", "errorCode", "errorDesc"}
                         \subseteq DOMAIN d1)
    /\ [][call'.op = "to_dict" =>
             /\ payload' = payload /\ rb' = rb
             /\ call'.result = Some(to_dict(Get(payload), call'.arg))]_vars

\* a payload with data, paging and a trace was serialised for a GENERAL_USER: the dict
\* has no stackTrace, the one for a DEVELOPER has, and they agree on everything else
C27_Witness_GeneralUserSeesAllButTrace ==
    /\ call.op = "to_dict" /\ call.arg = "GENERAL_USER"
    /\ ~IsNone(payload)
    /\ {"data", "paging"} \subseteq DOMAIN Get(call.result)
    /\ "stackTrace" \notin DOMAIN Get(call.result)
    /\ "stackTrace" \in DOMAIN to_dict(Get(payload), "DEVELOPER")
    /\ WithoutStackTrace(to_dict(Get(payload), "DEVELOPER")) = Get(call.result)

=============================================================================
